---- MODULE Spec2Model ----
(***************************************************************************)
(* A model of sdbatch (src/src/batch.rs, src/src/batch/auto1111_api.rs):   *)
(* the run / resume / reroll / reroll --all commands, the batch log they   *)
(* keep on disk, the image files they write and the calls they make to the *)
(* Automatic1111 API.                                                      *)
(*                                                                         *)
(* Texts are sequences of one-character strings.  An Option<T> is a        *)
(* sequence of length 0 (None) or 1 (Some).  The API service and the user  *)
(* who edits the output directory between commands are the environment.    *)
(* Errors of the local file system while writing are not modelled.         *)
(***************************************************************************)
EXTENDS Integers, Sequences, FiniteSets, TLC

VARIABLES
    template,       \* the BatchTemplate read by do_run
    dry_run,        \* run --dry-run
    sequential,     \* run --sequential
    now,            \* Local::now(), formatted, when the log is created
    cmd,            \* the command being executed
    pc,             \* its position
    arg_path,       \* file_path argument of resume / reroll / reroll_all
    arg_index,      \* index argument of reroll
    prompt_pool,    \* run's local of that name: the sampled pool positions
    log,            \* the BatchLog in memory
    api,            \* Some(APIClient) once get_api_client returned
    existing_image_indices, \* resume's local of that name
    i,              \* the loop position of the generation loops
    missing_images_created, \* resume's counter
    result,         \* what the last finished command returned
    dir_exists,     \* whether the output directory exists
    disk,           \* the log files of the output directory: path -> JSON content
    files,          \* the image files of the output directory: name -> content
    calls,          \* history: the API calls of the current command
    disk0,          \* history: disk when the current command started
    files0,         \* history: files when the current command started
    planned,        \* history: the images as run planned them
    fn_in,          \* the arguments of a function applied on its own
    fn_out          \* Some(its value) once it returned

vars == <<template, dry_run, sequential, now, cmd, pc, arg_path, arg_index, log,
          api, existing_image_indices, i, missing_images_created, result,
          dir_exists, disk, files, calls, disk0, files0, planned,
          prompt_pool, fn_in, fn_out>>

-----------------------------------------------------------------------------
(* Bounds *)

MaxImages == 2

\* The longest first argument combine_prompts is applied to, the examples apart.
MaxText == 3

-----------------------------------------------------------------------------
(* Option and text helpers *)

None == <<>>
Some(x) == <<x>>
is_some(o) == Len(o) = 1
unwrap_or(o, d) == IF Len(o) = 1 THEN o[1] ELSE d

Range(s) == {s[k] : k \in 1..Len(s)}

\* str::contains
contains(s, pat) ==
    \E k \in 0..(Len(s) - Len(pat)) :
        \A j \in 1..Len(pat) : s[k + j] = pat[j]

\* char::is_whitespace, for the characters the texts are made of
White_Space == {" ", "\t", "\n"}

RECURSIVE trim_end_spaces(_)
\* faulty variant: only spaces are trimmed
trim_end_spaces(s) ==
    IF Len(s) > 0 /\ s[Len(s)] = " " THEN trim_end_spaces(SubSeq(s, 1, Len(s) - 1)) ELSE s

RECURSIVE trim_end(_)
\* str::trim_end
trim_end(s) ==
    IF Len(s) > 0 /\ s[Len(s)] \in White_Space
    THEN trim_end(SubSeq(s, 1, Len(s) - 1))
    ELSE s

\* str::replace(" ", "-")
replace_space(s) == [k \in 1..Len(s) |-> IF s[k] = " " THEN "-" ELSE s[k]]

Digit(d) == CASE d = 0 -> "0" [] d = 1 -> "1" [] d = 2 -> "2" [] d = 3 -> "3"
              [] d = 4 -> "4" [] d = 5 -> "5" [] d = 6 -> "6" [] d = 7 -> "7"
              [] d = 8 -> "8" [] d = 9 -> "9"

DigitChars == {"0", "1", "2", "3", "4", "5", "6", "7", "8", "9"}

DigitValue(c) == CHOOSE d \in 0..9 : Digit(d) = c

RECURSIVE Decimal(_)
\* format!("{}", n) of an unsigned integer
Decimal(n) == IF n < 10 THEN <<Digit(n)>> ELSE Decimal(n \div 10) \o <<Digit(n % 10)>>

\* faulty variant: exactly two digits
Format02_two(n) == <<Digit((n \div 10) % 10), Digit(n % 10)>>

\* format!("{:02}", n): at least two digits, padded with zeros on the left
Format02(n) == IF Len(Decimal(n)) < 2 THEN <<"0">> \o Decimal(n) ELSE Decimal(n)

RECURSIVE DigitsValue(_)
DigitsValue(s) ==
    IF Len(s) = 0 THEN 0
    ELSE 10 * DigitsValue(SubSeq(s, 1, Len(s) - 1)) + DigitValue(s[Len(s)])

\* usize::from_str_radix(s, 10).ok(): an optional '+', then one or more digits
from_str_radix(s) ==
    LET body == IF Len(s) > 0 /\ s[1] = "+" THEN Tail(s) ELSE s
    IN  IF Len(body) > 0 /\ \A k \in 1..Len(body) : body[k] \in DigitChars
        THEN Some(DigitsValue(body))
        ELSE None

-----------------------------------------------------------------------------
(* Prompt planning: BatchTemplate::generate_log_for_prompt and the sampling  *)
(* of run.                                                                  *)

combine_prompts(a, b) ==
    LET combined == trim_end(a)
        withComma == IF Len(combined) > 0 /\ combined[Len(combined)] = ","
                     THEN combined
                     ELSE Append(combined, ",")
    IN  Append(withComma, " ") \o b

build_positive(t, positive) == combine_prompts(t.base_prompt.positive, positive)

copy_with_positive(t, positive) ==
    [t.base_prompt EXCEPT !.positive = build_positive(t, positive)]

\* faulty variant: of a list of fragments only the first is looked for
filter_if_not_first(prompt, activator) ==
    IF activator.kind = "One"
    THEN ~contains(prompt.positive, activator.one)
    ELSE ~(Len(activator.many) > 0 /\ contains(prompt.positive, activator.many[1]))

filter_if_not(prompt, activator) ==
    IF activator.kind = "One"
    THEN ~contains(prompt.positive, activator.one)
    ELSE ~(\E k \in 1..Len(activator.many) : contains(prompt.positive, activator.many[k]))

\* faulty variant: the positive activator is not looked at
if_filter_any(prompt_data, m) == TRUE

\* the first filter of generate_log_for_prompt
if_filter(prompt_data, m) ==
    \/ ~is_some(m.if_activator)
    \/ (is_some(m.if_activator) /\ contains(prompt_data.positive, m.if_activator[1]))

\* the second filter of generate_log_for_prompt
if_not_filter(prompt_data, m) ==
    \/ ~is_some(m.if_not_activator)
    \/ (is_some(m.if_not_activator) /\ filter_if_not(prompt_data, m.if_not_activator[1]))

applicable_modifiers(t, prompt_data) ==
    IF is_some(t.modifiers)
    THEN {k \in 1..Len(t.modifiers[1]) :
            /\ if_filter(prompt_data, t.modifiers[1][k])
            /\ if_not_filter(prompt_data, t.modifiers[1][k])}
    ELSE {}

\* Chances and rolls are hundredths: rng.gen::<f32>() is in [0, 1).
Rolls == {0, 50, 99}
Probable(chance) == unwrap_or(chance, 100)

\* The positive fragments a pool entry can resolve to.
ResolvedPositives(prompt) ==
    CASE prompt.kind = "Single" -> {prompt.single}
      [] prompt.kind = "Multiple" -> Range(prompt.multiple)
      [] prompt.kind = "MultipleWeighted" ->
            {prompt.weighted[k].prompt : k \in
                {j \in 1..Len(prompt.weighted) : Probable(prompt.weighted[j].chance) > 0}}

\* faulty variant: the fragment of the chosen modifier is appended twice
with_modifier_again(t, prompt_data, k, roll) ==
    IF roll <= Probable(t.modifiers[1][k].chance)
    THEN [prompt_data EXCEPT
            !.positive = combine_prompts(
                            combine_prompts(prompt_data.positive, t.modifiers[1][k].prompt),
                            t.modifiers[1][k].prompt)]
    ELSE prompt_data

\* The prompt after the modifier step, for a choice of modifier and a roll.
with_modifier(t, prompt_data, k, roll) ==
    IF roll <= Probable(t.modifiers[1][k].chance)
    THEN [prompt_data EXCEPT
            !.positive = combine_prompts(prompt_data.positive, t.modifiers[1][k].prompt)]
    ELSE prompt_data

\* rng.next_u32() as i64
PlanSeeds == {1}

\* Every record generate_log_for_prompt can return for a pool entry.
generate_log_for_prompt(t, prompt) ==
    LET resolved == {copy_with_positive(t, p) : p \in ResolvedPositives(prompt)}
        modified(pd) ==
            IF applicable_modifiers(t, pd) = {}
            THEN {pd}
            ELSE {with_modifier(t, pd, k, roll) :
                    k \in applicable_modifiers(t, pd), roll \in Rolls}
    IN  {[pd EXCEPT !.seed = Some(s)] :
            pd \in UNION {modified(r) : r \in resolved}, s \in PlanSeeds}

\* self.count.unwrap_or(self.prompts.len())
CountOf(t) == unwrap_or(t.count, Len(t.prompts))

\* faulty variant: the count check one off
count_too_large_off(t) == Len(t.prompts) + 1 < CountOf(t)

\* the count check of run
count_too_large(t) == Len(t.prompts) < CountOf(t)

Min(a, b) == IF a < b THEN a ELSE b

\* faulty variant: the pool is shuffled whatever the flag says
PromptPools_shuffled(t, seq) ==
    LET n == Min(CountOf(t), Len(t.prompts))
    IN  {s \in [1..n -> 1..Len(t.prompts)] : \A a, b \in 1..n : a # b => s[a] # s[b]}

\* faulty variant: random sampling with replacement
PromptPools_replacing(t, seq) ==
    LET n == Min(CountOf(t), Len(t.prompts))
    IN  IF seq THEN {[k \in 1..n |-> k]} ELSE [1..n -> 1..Len(t.prompts)]

\* The positions of the pool run can sample, in sampled order: iter().take(count)
\* or choose_multiple(rng, count), both of at most the whole pool.
PromptPools(t, seq) ==
    LET n == Min(CountOf(t), Len(t.prompts))
    IN  IF seq
        THEN {[k \in 1..n |-> k]}
        ELSE {s \in [1..n -> 1..Len(t.prompts)] :
                \A a, b \in 1..n : a # b => s[a] # s[b]}

RECURSIVE Plans(_, _, _)
\* The image lists run can build from the sampled positions pool[k..].
Plans(t, pool, k) ==
    IF k > Len(pool) THEN {<<>>}
    ELSE {<<pd>> \o rest : pd \in generate_log_for_prompt(t, t.prompts[pool[k]]),
                           rest \in Plans(t, pool, k + 1)}

-----------------------------------------------------------------------------
(* Files *)

Png == <<"p", "n", "g">>
Json == <<"j", "s", "o", "n">>

\* get_safe_filename
get_safe_filename(name) == replace_space(name)

\* BatchLog::safe_logfile_name: format!("{}-{}.json", sanitized_filename, timestamp)
safe_logfile_name(name, timestamp) ==
    [stem |-> get_safe_filename(name) \o <<"-">> \o timestamp, ext |-> Json]

\* BatchLog::new
BatchLog_new(name, timestamp) ==
    [template |-> name, images |-> <<>>, file_path |-> safe_logfile_name(name, timestamp)]

\* serde_json::to_writer_pretty(&dest_file, self): file_path is #[serde(skip)]
to_json(l) == [template |-> l.template, images |-> l.images]

\* BatchLog::from_file
from_file(d, file_path) ==
    [template |-> d[file_path].template, images |-> d[file_path].images,
     file_path |-> file_path]

\* faulty variant: the name of the log is formed again, a minute later
write_log_renamed(d, path, l) ==
    LET later == safe_logfile_name(l.template, <<"0", "9", "3", "1">>)
    IN  [p \in DOMAIN d \cup {later} |-> IF p = later THEN to_json(l) ELSE d[p]]

\* fs::File::create(path) followed by the serialisation of the log
write_log(d, path, l) ==
    [p \in DOMAIN d \cup {path} |-> IF p = path THEN to_json(l) ELSE d[p]]

\* fs::File::create(&image_filename) followed by write_all / save
write_file(fs, name, content) ==
    [n \in DOMAIN fs \cup {name} |-> IF n = name THEN content ELSE fs[n]]

remove_file(fs, name) == [n \in DOMAIN fs \ {name} |-> fs[n]]

\* format!("{:02}.png", prompt_index) and format!("{:02}-{}.png", prompt_index, i)
image_filename(prompt_index, k) ==
    IF k = 0
    THEN [stem |-> Format02(prompt_index), ext |-> Png]
    ELSE [stem |-> Format02(prompt_index) \o <<"-">> \o Decimal(k), ext |-> Png]

\* What generate_image stores for one image of the response.
image_content(prompt, image_bytes) ==
    [bytes |-> image_bytes, resized |-> is_some(prompt.post_process)]

-----------------------------------------------------------------------------
(* The API *)

ApiSeeds == {1, 2}

\* impl From<&super::PromptData> for PromptData
ApiPromptData(value) ==
    [prompt |-> value.positive,
     sampler_name |-> value.sampler,
     seed |-> unwrap_or(value.seed, -1),
     send_images |-> TRUE,
     save_images |-> FALSE,
     restore_faces |-> FALSE]

ImageLists == UNION {[1..n -> {"img"}] : n \in 0..MaxImages}

\* What APIClient::txt2img and the parse of its info can give: an error, or the
\* decoded images with the seeds of the info (all_seeds).
Responses ==
    {[ok |-> FALSE, images |-> <<>>, all_seeds |-> <<>>]}
    \cup {[ok |-> TRUE, images |-> im, all_seeds |-> se] :
            im \in ImageLists, se \in {<<>>} \cup {<<s>> : s \in ApiSeeds}}

RECURSIVE write_images(_, _, _, _, _)
\* the loop of generate_image over image_list, from position k
write_images(fs, prompt, prompt_index, images, k) ==
    IF k >= Len(images) THEN fs
    ELSE write_images(
            write_file(fs, image_filename(prompt_index, k),
                       image_content(prompt, images[k + 1])),
            prompt, prompt_index, images, k + 1)

\* the seed generate_image leaves in the prompt
seed_after(prompt, resp) ==
    IF Len(resp.images) > 0 /\ Len(resp.all_seeds) > 0
    THEN Some(resp.all_seeds[1])
    ELSE prompt.seed

\* faulty variant: the error of the API call is dropped
generate_image_swallow(fs, prompt, prompt_index, resp) ==
    [ok |-> TRUE,
     prompt |-> IF resp.ok THEN [prompt EXCEPT !.seed = seed_after(prompt, resp)]
                ELSE prompt,
     files |-> write_images(fs, prompt, prompt_index, resp.images, 0)]

\* faulty variant: the post-processing is dropped from the record once applied
generate_image_consumes(fs, prompt, prompt_index, resp) ==
    IF ~resp.ok
    THEN [ok |-> FALSE, prompt |-> prompt, files |-> fs]
    ELSE [ok |-> TRUE,
          prompt |-> [prompt EXCEPT !.seed = seed_after(prompt, resp), !.post_process = None],
          files |-> write_images(fs, prompt, prompt_index, resp.images, 0)]

\* BatchTemplate::generate_image, for the response the API gives
generate_image(fs, prompt, prompt_index, resp) ==
    IF ~resp.ok
    THEN [ok |-> FALSE, prompt |-> prompt, files |-> fs]
    ELSE [ok |-> TRUE,
          prompt |-> [prompt EXCEPT !.seed = seed_after(prompt, resp)],
          files |-> write_images(fs, prompt, prompt_index, resp.images, 0)]

\* the record of one API call
Call(index, prompt, resp) ==
    [index |-> index, request |-> ApiPromptData(prompt), response |-> resp]

-----------------------------------------------------------------------------
(* Inputs *)

Single(t) == [kind |-> "Single", single |-> t]
Multiple(ts) == [kind |-> "Multiple", multiple |-> ts]

Resize == [scale_by |-> 2]

base_prompt(pp) ==
    [positive |-> <<"a">>, model |-> "m1", sampler |-> "Euler", seed |-> None,
     post_process |-> pp]

Modifier(prompt, chance, if_activator, if_not_activator) ==
    [prompt |-> prompt, chance |-> chance, if_activator |-> if_activator,
     if_not_activator |-> if_not_activator]

\* The templates of the command runs: a pool of two entries, with the count
\* omitted, below the pool size or above it.
Template(count, pp, modifiers) ==
    [name |-> <<"t", " ", "1">>,
     base_prompt |-> base_prompt(pp),
     count |-> count,
     save_images |-> Some(TRUE),
     restore_faces |-> None,
     prompts |-> <<Single(<<"b">>), Multiple(<<<<"c">>, <<"d">>>>)>>,
     modifiers |-> modifiers]

RunTemplates ==
    {Template(None, None, None),
     Template(Some(1), Some(Resize),
              Some(<<Modifier(<<"x">>, Some(50), Some(<<"b">>), None)>>)),
     Template(Some(3), None, None)}

Timestamps == {<<"0", "9", "3", "0">>}

\* A path that names no log file.
NoSuchLog == [stem |-> <<"n", "o">>, ext |-> Json]

\* Files the user can put into the output directory between commands.
UserFiles == {[stem |-> <<"0", "1">>, ext |-> <<"j", "p", "g">>]}

UserContent == [bytes |-> "user", resized |-> FALSE]

NoResult == [cmd |-> "none", ok |-> TRUE, error |-> "", value |-> 0, log_file |-> None]
NoLog == [template |-> <<>>, images |-> <<>>, file_path |-> NoSuchLog]
EmptyFn == [x \in {} |-> 0]

Init ==
    /\ template \in RunTemplates
    /\ dry_run = FALSE
    /\ sequential = FALSE
    /\ now \in Timestamps
    /\ cmd = "none"
    /\ pc = "idle"
    /\ arg_path = NoSuchLog
    /\ arg_index = 0
    /\ log = NoLog
    /\ api = None
    /\ existing_image_indices = {}
    /\ i = 0
    /\ missing_images_created = 0
    /\ result = NoResult
    /\ dir_exists = FALSE
    /\ disk = EmptyFn
    /\ files = EmptyFn
    /\ calls = <<>>
    /\ disk0 = EmptyFn
    /\ files0 = EmptyFn
    /\ planned = <<>>
    /\ prompt_pool = <<>>
    /\ fn_in = <<>>
    /\ fn_out = None

-----------------------------------------------------------------------------
(* Command frame *)

\* A command starts: the process is fresh, the histories are reset.
Start(c) ==
    /\ pc = "idle"
    /\ cmd' = c
    /\ calls' = <<>>
    /\ disk0' = disk
    /\ files0' = files
    /\ existing_image_indices' = {}
    /\ i' = 0
    /\ missing_images_created' = 0

\* The command returns Ok.
Ok(value, log_file) ==
    /\ pc' = "done"
    /\ result' = [cmd |-> cmd, ok |-> TRUE, error |-> "", value |-> value,
                  log_file |-> log_file]

\* The command returns Err.
Err(c, error) ==
    /\ pc' = "done"
    /\ result' = [cmd |-> c, ok |-> FALSE, error |-> error, value |-> 0,
                  log_file |-> None]

\* faulty variant: the log is written before the planned images are pushed
BatchLog_write_unfilled(d, l) == write_log(d, l.file_path, [l EXCEPT !.images = <<>>])

\* BatchLog::write
BatchLog_write(d, l) == write_log(d, l.file_path, l)

\* faulty variant: the dry-run flag is ignored
after_log_written_always(dry) == "run_client"

\* run: after the log is written, a dry run is done and the others get the client
after_log_written(dry) == IF dry THEN "done" ELSE "run_client"

\* faulty variant: the index check one off
nth_is_none_off(images, index) == index > Len(images)

\* reroll: log.images.iter().nth(index) is None
nth_is_none(images, index) == ~(index < Len(images))

\* get_api_client: APIClient::new
get_api_client == [api_url |-> "http://127.0.0.1:7860"]

inputs == <<template, now, fn_in, fn_out>>
flags == <<dry_run, sequential>>
locals == <<existing_image_indices, i, missing_images_created>>
hist == <<calls, disk0, files0>>

-----------------------------------------------------------------------------
(* run *)

\* do_run and BatchTemplate::run up to the count check
RunValidate ==
    /\ Start("run")
    /\ DOMAIN disk = {}
    /\ dry_run' \in BOOLEAN
    /\ sequential' \in BOOLEAN
    /\ IF count_too_large(template)
       THEN Err("run", "count is too large")
       ELSE pc' = "run_plan" /\ result' = result
    /\ log' = NoLog
    /\ api' = None
    /\ UNCHANGED <<inputs, arg_path, arg_index, dir_exists, disk, files, planned,
                   prompt_pool>>

\* run: sample the pool, create the log and the directory, plan, write the log
RunPlan ==
    /\ pc = "run_plan"
    /\ \E pool \in PromptPools(template, sequential) :
         \E images \in Plans(template, pool, 1) :
            LET batch_log == [BatchLog_new(template.name, now) EXCEPT !.images = images]
            IN  /\ prompt_pool' = pool
                /\ planned' = images
                /\ log' = batch_log
                /\ dir_exists' = TRUE
                /\ disk' = BatchLog_write(disk, batch_log)
                /\ IF after_log_written(dry_run) = "done"
                   THEN Ok(Len(images), Some(batch_log.file_path))
                   ELSE pc' = after_log_written(dry_run) /\ result' = result
    /\ UNCHANGED <<inputs, flags, cmd, arg_path, arg_index, api, locals, files, hist>>

\* run: get_api_client
RunClient ==
    /\ pc = "run_client"
    /\ \E built \in BOOLEAN :
         IF built
         THEN api' = Some(get_api_client) /\ pc' = "run_generate" /\ result' = result
         ELSE api' = api /\ Err(cmd, "client")
    /\ UNCHANGED <<inputs, flags, planned, prompt_pool, cmd, arg_path, arg_index, log, locals, dir_exists, disk,
                   files, hist>>

\* run: one iteration of the generation loop
RunGenerate ==
    /\ pc = "run_generate"
    /\ i < Len(log.images)
    /\ \E resp \in Responses :
         LET prompt == log.images[i + 1]
             g == generate_image(files, prompt, i, resp)
         IN  /\ calls' = Append(calls, Call(i, prompt, resp))
             /\ IF g.ok
                THEN /\ log' = [log EXCEPT !.images[i + 1] = g.prompt]
                     /\ files' = g.files
                     /\ i' = i + 1
                     /\ pc' = pc /\ result' = result
                ELSE /\ Err(cmd, "generation")
                     /\ UNCHANGED <<log, files, i>>
    /\ UNCHANGED <<inputs, flags, planned, prompt_pool, cmd, arg_path, arg_index, api, existing_image_indices,
                   missing_images_created, dir_exists, disk, disk0, files0>>

\* run returns the log, do_run reports it
RunDone ==
    /\ pc = "run_generate"
    /\ i = Len(log.images)
    /\ Ok(Len(log.images), Some(log.file_path))
    /\ UNCHANGED <<inputs, flags, planned, prompt_pool, cmd, arg_path, arg_index, log, api, locals, dir_exists,
                   disk, files, hist>>

-----------------------------------------------------------------------------
(* resume *)

\* The paths a user can pass as the log file.
LogArgs == DOMAIN disk \cup {NoSuchLog}

\* fs::read_dir(output_dir): the image files and the log files
output_dir_entries == DOMAIN files \cup DOMAIN disk

\* faulty variant: no entry is recognised
scan_existing_nothing(entries) == {}

\* faulty variant: the extension is not looked at
scan_existing_any_ext(entries) ==
    {from_str_radix(e.stem)[1] : e \in {f \in entries : is_some(from_str_radix(f.stem))}}

\* resume: the indices of the entries "<digits>.png" (sorting the entries first
\* changes nothing in what is collected)
scan_existing(entries) ==
    {from_str_radix(e.stem)[1] :
        e \in {f \in entries : f.ext = Png /\ is_some(from_str_radix(f.stem))}}

\* resume: BatchLog::from_file and get_api_client
ResumeLoad ==
    /\ Start("resume")
    /\ \E file_path \in LogArgs, built \in BOOLEAN :
         /\ arg_path' = file_path
         /\ IF file_path \notin DOMAIN disk
            THEN /\ Err("resume", "open") /\ log' = NoLog /\ api' = None
            ELSE /\ log' = from_file(disk, file_path)
                 /\ IF built
                    THEN api' = Some(get_api_client) /\ pc' = "resume_scan"
                         /\ result' = result
                    ELSE api' = None /\ Err("resume", "client")
    /\ UNCHANGED <<inputs, flags, planned, prompt_pool, arg_index, dir_exists, disk, files>>

\* resume: read the output directory and collect the existing image indices
ResumeScan ==
    /\ pc = "resume_scan"
    /\ existing_image_indices' = scan_existing(output_dir_entries)
    /\ pc' = "resume_generate"
    /\ UNCHANGED <<inputs, flags, planned, prompt_pool, cmd, arg_path, arg_index, log, api, i,
                   missing_images_created, result, dir_exists, disk, files, hist>>

\* resume: one iteration of the loop over log.images.clone()
ResumeGenerate ==
    /\ pc = "resume_generate"
    /\ i < Len(log.images)
    /\ IF i \in existing_image_indices
       THEN /\ i' = i + 1
            /\ UNCHANGED <<log, files, calls, missing_images_created, pc, result>>
       ELSE \E resp \in Responses :
              LET updated_prompt == [log.images[i + 1] EXCEPT !.seed = None]
                  g == generate_image(files, updated_prompt, i, resp)
              IN  /\ calls' = Append(calls, Call(i, updated_prompt, resp))
                  /\ IF g.ok
                     THEN /\ log' = [log EXCEPT !.images[i + 1] = g.prompt]
                          /\ files' = g.files
                          /\ missing_images_created' = missing_images_created + 1
                          /\ i' = i + 1
                          /\ pc' = pc /\ result' = result
                     ELSE /\ Err(cmd, "generation")
                          /\ UNCHANGED <<log, files, i, missing_images_created>>
    /\ UNCHANGED <<inputs, flags, planned, prompt_pool, cmd, arg_path, arg_index, api, existing_image_indices,
                   dir_exists, disk, disk0, files0>>

\* resume: File::create(path), write_update, Ok(missing_images_created)
ResumeWrite ==
    /\ pc = "resume_generate"
    /\ i = Len(log.images)
    /\ disk' = write_log(disk, arg_path, log)
    /\ Ok(missing_images_created, None)
    /\ UNCHANGED <<inputs, flags, planned, prompt_pool, cmd, arg_path, arg_index, log, api, locals, dir_exists,
                   files, hist>>

-----------------------------------------------------------------------------
(* reroll *)

\* The indices a user can pass to reroll.
IndexArgs == 0..2

\* reroll: BatchLog::from_file, the lookup of the index, get_api_client
RerollLoad ==
    /\ Start("reroll")
    /\ \E file_path \in LogArgs, index \in IndexArgs, built \in BOOLEAN :
         /\ arg_path' = file_path
         /\ arg_index' = index
         /\ IF file_path \notin DOMAIN disk
            THEN /\ Err("reroll", "open") /\ log' = NoLog /\ api' = None
            ELSE /\ log' = from_file(disk, file_path)
                 /\ IF nth_is_none(disk[file_path].images, index)
                    THEN api' = None /\ Err("reroll", "Reroll error")
                    ELSE IF built
                         THEN api' = Some(get_api_client) /\ pc' = "reroll_generate"
                              /\ result' = result
                         ELSE api' = None /\ Err("reroll", "client")
    /\ UNCHANGED <<inputs, flags, planned, prompt_pool, dir_exists, disk, files>>

\* reroll: clear the seed, generate_image, store the prompt in the log
RerollGenerate ==
    /\ pc = "reroll_generate"
    /\ \E resp \in Responses :
         LET updated_prompt == [log.images[arg_index + 1] EXCEPT !.seed = None]
             g == generate_image(files, updated_prompt, arg_index, resp)
         IN  /\ calls' = Append(calls, Call(arg_index, updated_prompt, resp))
             /\ IF g.ok
                THEN /\ log' = [log EXCEPT !.images[arg_index + 1] = g.prompt]
                     /\ files' = g.files
                     /\ pc' = "reroll_write" /\ result' = result
                ELSE /\ Err(cmd, "generation")
                     /\ UNCHANGED <<log, files>>
    /\ UNCHANGED <<inputs, flags, planned, prompt_pool, cmd, arg_path, arg_index, api, locals, dir_exists, disk,
                   disk0, files0>>

\* reroll: File::create(path), write_update, Ok(())
RerollWrite ==
    /\ pc = "reroll_write"
    /\ disk' = write_log(disk, arg_path, log)
    /\ Ok(0, None)
    /\ UNCHANGED <<inputs, flags, planned, prompt_pool, cmd, arg_path, arg_index, log, api, locals, dir_exists,
                   files, hist>>

\* reroll as one operation, for the response the API gives
reroll(d, fs, file_path, index, resp) ==
    LET lg == from_file(d, file_path)
        updated_prompt == [lg.images[index + 1] EXCEPT !.seed = None]
        g == generate_image(fs, updated_prompt, index, resp)
    IN  IF g.ok
        THEN [ok |-> TRUE,
              disk |-> write_log(d, file_path, [lg EXCEPT !.images[index + 1] = g.prompt]),
              files |-> g.files]
        ELSE [ok |-> FALSE, disk |-> d, files |-> fs]

-----------------------------------------------------------------------------
(* reroll --all *)

\* reroll_all: BatchLog::from_file and get_api_client
RerollAllLoad ==
    /\ Start("reroll_all")
    /\ \E file_path \in LogArgs, built \in BOOLEAN :
         /\ arg_path' = file_path
         /\ IF file_path \notin DOMAIN disk
            THEN /\ Err("reroll_all", "open") /\ log' = NoLog /\ api' = None
            ELSE /\ log' = from_file(disk, file_path)
                 /\ IF built
                    THEN api' = Some(get_api_client) /\ pc' = "reroll_all_generate"
                         /\ result' = result
                    ELSE api' = None /\ Err("reroll_all", "client")
    /\ UNCHANGED <<inputs, flags, planned, prompt_pool, arg_index, dir_exists, disk, files>>

\* reroll_all: one iteration of the loop over log.images.clone()
RerollAllGenerate ==
    /\ pc = "reroll_all_generate"
    /\ i < Len(log.images)
    /\ \E resp \in Responses :
         LET updated_prompt == [log.images[i + 1] EXCEPT !.seed = None]
             g == generate_image(files, updated_prompt, i, resp)
         IN  /\ calls' = Append(calls, Call(i, updated_prompt, resp))
             /\ IF g.ok
                THEN /\ log' = [log EXCEPT !.images[i + 1] = g.prompt]
                     /\ files' = g.files
                     /\ i' = i + 1
                     /\ pc' = pc /\ result' = result
                ELSE /\ Err(cmd, "generation")
                     /\ UNCHANGED <<log, files, i>>
    /\ UNCHANGED <<inputs, flags, planned, prompt_pool, cmd, arg_path, arg_index, api, existing_image_indices,
                   missing_images_created, dir_exists, disk, disk0, files0>>

\* reroll_all: File::create(path), write_update, Ok(())
RerollAllWrite ==
    /\ pc = "reroll_all_generate"
    /\ i = Len(log.images)
    /\ disk' = write_log(disk, arg_path, log)
    /\ Ok(0, None)
    /\ UNCHANGED <<inputs, flags, planned, prompt_pool, cmd, arg_path, arg_index, log, api, locals, dir_exists,
                   files, hist>>

-----------------------------------------------------------------------------
(* The user, between commands *)

UserRemove ==
    /\ pc = "idle"
    /\ \E f \in DOMAIN files : files' = remove_file(files, f)
    /\ UNCHANGED <<inputs, flags, planned, prompt_pool, cmd, pc, arg_path, arg_index, log, api, locals, result,
                   dir_exists, disk, hist>>

UserPut ==
    /\ pc = "idle"
    /\ dir_exists
    /\ \E f \in UserFiles \ DOMAIN files : files' = write_file(files, f, UserContent)
    /\ UNCHANGED <<inputs, flags, planned, prompt_pool, cmd, pc, arg_path, arg_index, log, api, locals, result,
                   dir_exists, disk, hist>>

\* The process of a command ends: nothing of it is left but the files.
Exit ==
    /\ pc = "done"
    /\ pc' = "idle"
    /\ cmd' = "none"
    /\ arg_path' = NoSuchLog
    /\ arg_index' = 0
    /\ log' = NoLog
    /\ api' = None
    /\ existing_image_indices' = {}
    /\ i' = 0
    /\ missing_images_created' = 0
    /\ result' = NoResult
    /\ dry_run' = FALSE
    /\ sequential' = FALSE
    /\ calls' = <<>>
    /\ disk0' = EmptyFn
    /\ files0' = EmptyFn
    /\ prompt_pool' = <<>>
    /\ UNCHANGED <<inputs, dir_exists, disk, files, planned>>

Next ==
    \/ Exit
    \/ RunValidate \/ RunPlan \/ RunClient \/ RunGenerate \/ RunDone
    \/ ResumeLoad \/ ResumeScan \/ ResumeGenerate \/ ResumeWrite
    \/ RerollLoad \/ RerollGenerate \/ RerollWrite
    \/ RerollAllLoad \/ RerollAllGenerate \/ RerollAllWrite
    \/ UserRemove \/ UserPut

Spec == Init /\ [][Next]_vars

TypeOK == pc \in {"idle", "done", "run_plan", "run_client", "run_generate", "resume_scan",
                  "resume_generate", "reroll_generate", "reroll_write",
                  "reroll_all_generate"}

-----------------------------------------------------------------------------
(* Functions applied on their own.  No command runs: the state of the       *)
(* commands stays as it is after construction, fn_in holds the arguments    *)
(* and fn_out the value once the function returned.                         *)

NoCommand ==
    /\ dry_run = FALSE
    /\ sequential = FALSE
    /\ now \in Timestamps
    /\ cmd = "none"
    /\ pc = "idle"
    /\ arg_path = NoSuchLog
    /\ arg_index = 0
    /\ log = NoLog
    /\ api = None
    /\ existing_image_indices = {}
    /\ i = 0
    /\ missing_images_created = 0
    /\ result = NoResult
    /\ dir_exists = FALSE
    /\ disk = EmptyFn
    /\ files = EmptyFn
    /\ calls = <<>>
    /\ disk0 = EmptyFn
    /\ files0 = EmptyFn
    /\ planned = <<>>
    /\ prompt_pool = <<>>

commands == <<dry_run, sequential, now, cmd, pc, arg_path, arg_index, log, api,
              existing_image_indices, i, missing_images_created, result,
              dir_exists, disk, files, calls, disk0, files0, planned, prompt_pool>>

(* generate_log_for_prompt *)

MultipleWeighted(ws) == [kind |-> "MultipleWeighted", weighted |-> ws]
WeightedPrompt(prompt, chance) == [prompt |-> prompt, chance |-> chance]
One(t) == [kind |-> "One", one |-> t]
Many(ts) == [kind |-> "Many", many |-> ts]

\* Modifier lists: positive activators, negative activators of both kinds,
\* chances of 0, 0.5 and the default, and a modifier without conditions.
PlanModifiers ==
    LET m1 == Modifier(<<"x">>, None, Some(<<"b">>), None)
        m2 == Modifier(<<"y">>, Some(50), None, Some(One(<<"c">>)))
        m3 == Modifier(<<"z">>, Some(0), Some(<<"c">>), Some(Many(<<<<"e">>, <<"d">>>>)))
        m4 == Modifier(<<"w">>, None, None, None)
    IN  {None, Some(<<>>), Some(<<m1>>), Some(<<m1, m2>>), Some(<<m2, m3>>),
         Some(<<m1, m3, m4>>)}

PlanBases == {<<"a">>, <<"b", ",">>, <<"c", " ">>}

PlanPrompts ==
    <<Single(<<"b">>),
      Multiple(<<<<"c">>, <<"d">>>>),
      MultipleWeighted(<<WeightedPrompt(<<"c">>, Some(30)),
                         WeightedPrompt(<<"e">>, Some(70)),
                         WeightedPrompt(<<"d">>, Some(0))>>)>>

PlanTemplates ==
    {[Template(None, None, ms) EXCEPT !.base_prompt.positive = b, !.prompts = PlanPrompts] :
        ms \in PlanModifiers, b \in PlanBases}

\* The runs of generate_log_for_prompt: the variant the entry resolved to, the
\* modifier that was appended (if any) and the record returned.
PlanTraces(t, prompt) ==
    LET trace(p, applied, pd, s) ==
            [variant |-> p, applied |-> applied, record |-> [pd EXCEPT !.seed = Some(s)]]
        after_modifiers(p) ==
            LET pd == copy_with_positive(t, p)
            IN  IF applicable_modifiers(t, pd) = {}
                THEN {trace(p, None, pd, s) : s \in PlanSeeds}
                ELSE {trace(p,
                            IF roll <= Probable(t.modifiers[1][k].chance) THEN Some(k) ELSE None,
                            with_modifier(t, pd, k, roll), s) :
                        k \in applicable_modifiers(t, pd), roll \in Rolls, s \in PlanSeeds}
    IN  UNION {after_modifiers(p) : p \in ResolvedPositives(prompt)}

InitPlan ==
    /\ NoCommand
    /\ template \in PlanTemplates
    /\ fn_in \in Range(template.prompts)
    /\ fn_out = None

PlanPrompt ==
    /\ fn_out = None
    /\ \E tr \in PlanTraces(template, fn_in) : fn_out' = Some(tr)
    /\ UNCHANGED <<commands, template, fn_in>>

NextPlan == PlanPrompt

SpecPlan == InitPlan /\ [][NextPlan]_vars

\* The traces and generate_log_for_prompt give the same records.
PlanTracesAgree ==
    {tr.record : tr \in PlanTraces(template, fn_in)} = generate_log_for_prompt(template, fn_in)

(* combine_prompts *)

RECURSIVE Texts(_, _)
\* The texts of at most n characters of an alphabet.
Texts(alphabet, n) ==
    IF n = 0 THEN {<<>>}
    ELSE Texts(alphabet, n - 1)
            \cup {Append(t, c) : t \in {u \in Texts(alphabet, n - 1) : Len(u) = n - 1},
                                 c \in alphabet}

CombineExamples ==
    {<<"a", ",", " ", "b">>, <<"a", ",", " ", "b", " ">>, <<"a", ",", " ", "b", ",">>}

CombineInputs ==
    {[a |-> a, b |-> b] :
        a \in Texts({"a", ",", " ", "\t"}, MaxText) \cup CombineExamples,
        b \in {<<"c">>, <<"x", " ", "y">>}}

InitCombine ==
    /\ NoCommand
    /\ template = Template(None, None, None)
    /\ fn_in \in CombineInputs
    /\ fn_out = None

CombinePrompts ==
    /\ fn_out = None
    /\ fn_out' = Some(combine_prompts(fn_in.a, fn_in.b))
    /\ UNCHANGED <<commands, template, fn_in>>

NextCombine == CombinePrompts

SpecCombine == InitCombine /\ [][NextCombine]_vars

(* print_elapsed *)

\* std::time::Duration: whole seconds and the nanoseconds of the last second.
\* All are within the range of chrono::Duration, so from_std succeeds.
Durations ==
    {[secs |-> secs, nanos |-> ms * 1000000 + sub] :
        secs \in {0, 7, 49, 59, 60, 189, 11352}, ms \in 0..999, sub \in {0, 12345, 999999}}

num_hours(d) == d.secs \div 3600
num_minutes(d) == d.secs \div 60
num_seconds(d) == d.secs
num_milliseconds(d) == d.secs * 1000 + d.nanos \div 1000000

print_elapsed(duration) ==
    IF num_hours(duration) > 0
    THEN LET minutes == num_minutes(duration) - num_hours(duration) * 60
             seconds == num_seconds(duration) - num_minutes(duration) * 60
         IN  Format02(num_hours(duration)) \o <<":">> \o Format02(minutes)
                \o <<":">> \o Format02(seconds)
    ELSE IF num_minutes(duration) > 0
    THEN LET seconds == num_seconds(duration) - num_minutes(duration) * 60
         IN  Format02(num_minutes(duration)) \o <<":">> \o Format02(seconds)
    ELSE LET milliseconds == num_milliseconds(duration) - (num_seconds(duration) * 1000)
         IN  Decimal(num_seconds(duration)) \o <<".">> \o Decimal(milliseconds) \o <<"s">>

\* The tests of util.rs: less_than_a_minute, more_than_a_minute, more_than_an_hour.
print_elapsed_tests ==
    /\ print_elapsed([secs |-> 49, nanos |-> 19 * 10000000]) = <<"4", "9", ".", "1", "9", "0", "s">>
    /\ print_elapsed([secs |-> 189, nanos |-> 12345]) = <<"0", "3", ":", "0", "9">>
    /\ print_elapsed([secs |-> 60 * 60 * 3 + 60 * 9 + 12, nanos |-> 0])
            = <<"0", "3", ":", "0", "9", ":", "1", "2">>

InitElapsed ==
    /\ NoCommand
    /\ template = Template(None, None, None)
    /\ fn_in \in Durations
    /\ fn_out = None

PrintElapsed ==
    /\ fn_out = None
    /\ fn_out' = Some(print_elapsed(fn_in))
    /\ UNCHANGED <<commands, template, fn_in>>

NextElapsed == PrintElapsed

SpecElapsed == InitElapsed /\ [][NextElapsed]_vars

(* APIClient::txt2img and APIClient::ensure_model *)

\* One HTTP request of the client: method, path under /sdapi/v1, JSON body.
Http(method, path, body) == [method |-> method, path |-> path, body |-> body]

\* The service as one call of txt2img finds it: its sd_model_checkpoint and what
\* it answers to GET options, POST options and POST txt2img.
Services ==
    [checkpoint : {"m1", "m2", "m3"},
     get : {"ok", "error"},
     post : {"ok", "model not found", "unexpected", "error"},
     txt : {"ok", "Sampler not found", "unexpected"}]

\* The prompts txt2img is called with.
ApiPrompts ==
    {[base_prompt(None) EXCEPT !.model = m, !.seed = s] :
        m \in {"m1", "m2"}, s \in {None, Some(1)}}

\* What ensure_model returns, the requests it sent and the checkpoint it leaves.
Reconciled(ok, error, http, checkpoint) ==
    [ok |-> ok, error |-> error, http |-> http, checkpoint |-> checkpoint]

\* faulty variant: the status of POST options is not looked at
ensure_model_unchecked(service, model) ==
    LET get == Http("GET", "options", None)
        post == Http("POST", "options", Some(model))
    IN  IF service.get # "ok"
        THEN Reconciled(FALSE, "options", <<get>>, service.checkpoint)
        ELSE IF service.checkpoint # model
        THEN Reconciled(TRUE, "", <<get, post>>,
                        IF service.post = "ok" THEN model ELSE service.checkpoint)
        ELSE Reconciled(TRUE, "", <<get>>, service.checkpoint)

\* APIClient::ensure_model
ensure_model(service, model) ==
    LET get == Http("GET", "options", None)
        post == Http("POST", "options", Some(model))
    IN  IF service.get # "ok"
        THEN Reconciled(FALSE, "options", <<get>>, service.checkpoint)
        ELSE IF service.checkpoint # model
        THEN CASE service.post = "ok" ->
                    Reconciled(TRUE, "", <<get, post>>, model)
               [] service.post = "model not found" ->
                    Reconciled(FALSE, "Model not found",
                               <<get, post, Http("GET", "sd-models", None)>>,
                               service.checkpoint)
               [] service.post = "unexpected" ->
                    Reconciled(FALSE, "Unexpected response when trying to set model option",
                               <<get, post>>, service.checkpoint)
               [] service.post = "error" ->
                    Reconciled(FALSE, "options", <<get, post>>, service.checkpoint)
        ELSE Reconciled(TRUE, "", <<get>>, service.checkpoint)

\* APIClient::txt2img
txt2img(service, prompt) ==
    LET e == ensure_model(service, prompt.model)
        request == Http("POST", "txt2img", Some(ApiPromptData(prompt)))
    IN  IF ~e.ok
        THEN e
        ELSE CASE service.txt = "ok" ->
                    Reconciled(TRUE, "", Append(e.http, request), e.checkpoint)
               [] service.txt = "Sampler not found" ->
                    Reconciled(FALSE, "Sampler not found",
                               e.http \o <<request, Http("GET", "samplers", None)>>,
                               e.checkpoint)
               [] service.txt = "unexpected" ->
                    Reconciled(FALSE, "Unexpected response when trying txt2img",
                               Append(e.http, request), e.checkpoint)

InitApi ==
    /\ NoCommand
    /\ template = Template(None, None, None)
    /\ fn_in \in [service : Services, prompt : ApiPrompts]
    /\ fn_out = None

Txt2Img ==
    /\ fn_out = None
    /\ fn_out' = Some(txt2img(fn_in.service, fn_in.prompt))
    /\ UNCHANGED <<commands, template, fn_in>>

NextApi == Txt2Img

SpecApi == InitApi /\ [][NextApi]_vars

-----------------------------------------------------------------------------
(* Properties *)

\* The path of the log of the run.
RunPath == safe_logfile_name(template.name, now)

\* The log file of the run holds the plan: one record per sampled pool position,
\* in order, each a record generate_log_for_prompt can return for that position.
PlanOnDisk ==
    /\ RunPath \in DOMAIN disk
    /\ disk[RunPath].images = planned
    /\ Len(disk[RunPath].images) = CountOf(template)
    /\ Len(prompt_pool) = CountOf(template)
    /\ \A k \in 1..Len(prompt_pool) :
         disk[RunPath].images[k]
            \in generate_log_for_prompt(template, template.prompts[prompt_pool[k]])

\* A response that carries an image and a seed.
Complete(resp) == resp.ok /\ Len(resp.images) > 0 /\ Len(resp.all_seeds) > 0

Failed == \E k \in 1..Len(calls) : ~calls[k].response.ok

\* C1: a run of a template whose count exceeds its pool fails with the
\* count error and has no effect: no log file, no output directory, no image,
\* no API client and no API call.
C1_CountOverflowNoSideEffect ==
    (cmd = "run" /\ CountOf(template) > Len(template.prompts)) =>
        /\ pc = "done"
        /\ ~result.ok
        /\ result.error = "count is too large"
        /\ DOMAIN disk = {}
        /\ ~dir_exists
        /\ DOMAIN files = {}
        /\ api = None
        /\ calls = <<>>

C1_Witness ==
    /\ cmd = "run" /\ pc = "done"
    /\ CountOf(template) > Len(template.prompts)
    /\ ~result.ok

\* C2: in a run, once the API client exists or a generation call was made, and
\* when the run failed at the client or at a generation, the log file holds the
\* whole plan.
C2_PlanPersistedBeforeGeneration ==
    (/\ cmd = "run"
     /\ \/ is_some(api)
        \/ Len(calls) > 0
        \/ pc \in {"run_client", "run_generate"}
        \/ (pc = "done" /\ result.error \in {"client", "generation"}))
    => PlanOnDisk

C2_Witness ==
    /\ cmd = "run" /\ pc = "done"
    /\ result.error = "generation"
    /\ Len(calls) = 1
    /\ Len(planned) = 2

\* C3: in a run that is not dry, after each successful generation that returned
\* an image and a seed, the log file holds that seed for the item.
C3_SeedPersistedAfterGeneration ==
    (cmd = "run" /\ ~dry_run) =>
        \A k \in 1..Len(calls) :
            Complete(calls[k].response) =>
                disk[RunPath].images[calls[k].index + 1].seed
                    = Some(calls[k].response.all_seeds[1])

\* C4: resume calls the API only for indices whose primary image was not in the
\* output directory when it started, and the log it writes has the entries of
\* the other indices as they were in the log it loaded.
C4_ResumeLeavesPresentUntouched ==
    cmd = "resume" =>
        /\ \A k \in 1..Len(calls) :
              image_filename(calls[k].index, 0) \notin DOMAIN files0
        /\ (pc = "done" /\ result.ok) =>
              \A n \in 0..(Len(disk0[arg_path].images) - 1) :
                  image_filename(n, 0) \in DOMAIN files0 =>
                      disk[arg_path].images[n + 1] = disk0[arg_path].images[n + 1]

C4_Witness ==
    /\ cmd = "resume" /\ pc = "done" /\ result.ok
    /\ Len(calls) = 1
    /\ calls[1].index = 1
    /\ image_filename(0, 0) \in DOMAIN files0
    /\ disk[arg_path].images[2] # disk0[arg_path].images[2]

\* C5: reroll with an index that is not below the number of entries of the log
\* fails with the index error, with no API client, no API call, no image file
\* written and the log file as it was.
C5_RerollInvalidIndex ==
    (/\ cmd = "reroll"
     /\ arg_path \in DOMAIN disk0
     /\ arg_index >= Len(disk0[arg_path].images))
    => /\ pc = "done"
       /\ ~result.ok
       /\ result.error = "Reroll error"
       /\ api = None
       /\ calls = <<>>
       /\ files = files0
       /\ disk = disk0

C5_Witness ==
    /\ cmd = "reroll" /\ pc = "done"
    /\ result.error = "Reroll error"
    /\ arg_index = Len(disk0[arg_path].images)
    /\ DOMAIN files # {}

\* C6: once a generation call of a command failed, the command has ended with an
\* error and the log file is as it was last written: the plan for run, the log
\* as it was when the command started for the others.
C6_GenerationFailureKeepsLog ==
    Failed =>
        /\ pc = "done"
        /\ ~result.ok
        /\ ~calls[Len(calls)].response.ok
        /\ IF cmd = "run"
           THEN /\ DOMAIN disk = {RunPath}
                /\ disk[RunPath] = [template |-> template.name, images |-> planned]
           ELSE /\ disk = disk0
                /\ arg_path \in DOMAIN disk

C6_Witness ==
    /\ cmd = "reroll_all" /\ pc = "done"
    /\ Len(calls) = 2
    /\ Complete(calls[1].response)
    /\ ~calls[2].response.ok

\* C7: a dry run builds no API client, makes no API call and writes no image;
\* when it is done the log file holds the plan, a record with a plan-time seed
\* for each of the count sampled entries.
C7_DryRun ==
    (cmd = "run" /\ dry_run) =>
        /\ api = None
        /\ calls = <<>>
        /\ files = files0
        /\ pc # "run_client" /\ pc # "run_generate"
        /\ (pc = "done" /\ result.ok) =>
              /\ PlanOnDisk
              /\ \A k \in 1..Len(planned) : planned[k].seed \in {Some(sd) : sd \in PlanSeeds}

C7_Witness ==
    /\ cmd = "run" /\ dry_run /\ pc = "done" /\ result.ok
    /\ Len(planned) = 2
    /\ PlanOnDisk

RECURSIVE RerollSeq(_, _, _, _, _)
\* reroll(0), reroll(1), ... with the responses of the calls cs[k..], stopping at
\* the first that fails.
RerollSeq(d, fs, file_path, cs, k) ==
    IF k > Len(cs) THEN [disk |-> d, files |-> fs]
    ELSE LET r == reroll(d, fs, file_path, cs[k].index, cs[k].response)
         IN  IF r.ok THEN RerollSeq(r.disk, r.files, file_path, cs, k + 1)
             ELSE [disk |-> d, files |-> fs]

\* C8: when reroll --all ends, with Ok or at a failed generation, the log file
\* and the image files are those that reroll of index 0, 1, ... in order, with
\* the same responses and stopping at the first failure, leaves (stated for
\* responses that, when they succeed, carry an image and a seed).
C8_RerollAllAsRerolls ==
    (/\ cmd = "reroll_all" /\ pc = "done"
     /\ arg_path \in DOMAIN disk0
     /\ (result.ok \/ result.error = "generation")
     /\ \A k \in 1..Len(calls) :
            calls[k].response.ok => Complete(calls[k].response))
    => /\ disk = RerollSeq(disk0, files0, arg_path, calls, 1).disk
       /\ files = RerollSeq(disk0, files0, arg_path, calls, 1).files

\* C9: a reroll that returns Ok made one API call, for the entry of its index
\* with the seed cleared, and the log file holds for that entry the seed of the
\* response.
C9_RerollOneCallSeedFromResponse ==
    (cmd = "reroll" /\ pc = "done" /\ result.ok) =>
        /\ Len(calls) = 1
        /\ calls[1].index = arg_index
        /\ calls[1].request.seed = -1
        /\ Len(calls[1].response.all_seeds) > 0 =>
              disk[arg_path].images[arg_index + 1].seed
                  = Some(calls[1].response.all_seeds[1])

\* The position of the first "-" of a text, or 0.
Dash(s) == IF \E k \in 1..Len(s) : s[k] = "-"
           THEN CHOOSE k \in 1..Len(s) : s[k] = "-" /\ \A j \in 1..(k - 1) : s[j] # "-"
           ELSE 0

IsNumber(s) == Len(s) > 0 /\ \A k \in 1..Len(s) : s[k] \in DigitChars

\* The index of a file named <index>[-<subindex>].<ext>, as an Option.
ConventionIndex(f) ==
    LET head == IF Dash(f.stem) = 0 THEN f.stem ELSE SubSeq(f.stem, 1, Dash(f.stem) - 1)
        sub == IF Dash(f.stem) = 0 THEN <<>>
               ELSE SubSeq(f.stem, Dash(f.stem) + 1, Len(f.stem))
    IN  IF IsNumber(head) /\ (Dash(f.stem) = 0 \/ IsNumber(sub))
        THEN Some(DigitsValue(head))
        ELSE None

Called(n) == \E k \in 1..Len(calls) : calls[k].index = n

\* C10, as claimed: a resume that returns Ok regenerated exactly the indices of
\* the log for which the output directory held no file <index>[-<subindex>].<ext>.
C10_PresentByConvention ==
    (cmd = "resume" /\ pc = "done" /\ result.ok) =>
        \A n \in 0..(Len(disk0[arg_path].images) - 1) :
            Called(n) <=> ~(\E f \in DOMAIN files0 : ConventionIndex(f) = Some(n))

\* C10, amended: a resume that returns Ok regenerated exactly the indices of the
\* log for which the output directory held no file <index>.png.
C10_PresentIffPrimaryPng ==
    (cmd = "resume" /\ pc = "done" /\ result.ok) =>
        \A n \in 0..(Len(disk0[arg_path].images) - 1) :
            Called(n) <=>
                ~(\E f \in DOMAIN files0 :
                    /\ f.ext = Png
                    /\ Dash(f.stem) = 0
                    /\ ConventionIndex(f) = Some(n))

C10_Witness ==
    /\ cmd = "resume" /\ pc = "done" /\ result.ok
    /\ Called(1)
    /\ image_filename(1, 0) \notin DOMAIN files0
    /\ image_filename(1, 1) \in DOMAIN files0
    /\ [stem |-> <<"0", "1">>, ext |-> <<"j", "p", "g">>] \in DOMAIN files0

\* reroll as one operation agrees with the steps of the reroll command.
RerollAgrees ==
    (cmd = "reroll" /\ pc = "done" /\ Len(calls) = 1) =>
        /\ disk = reroll(disk0, files0, arg_path, arg_index, calls[1].response).disk
        /\ files = reroll(disk0, files0, arg_path, arg_index, calls[1].response).files

\* The positive prompt before the modifier step: the base combined with the variant.
Stem(variant) == combine_prompts(template.base_prompt.positive, variant)

\* C11: a modifier that has a positive activator is appended to a planned
\* record only if the positive prompt it was planned from, the base prompt
\* combined with the resolved variant, contains the activator.
C11_PositiveActivatorGuards ==
    is_some(fn_out) =>
        LET tr == fn_out[1]
        IN  is_some(tr.applied) =>
                LET m == template.modifiers[1][tr.applied[1]]
                IN  /\ tr.record.positive = combine_prompts(Stem(tr.variant), m.prompt)
                    /\ is_some(m.if_activator) =>
                            contains(Stem(tr.variant), m.if_activator[1])

\* A modifier with a positive activator was appended, in a template where
\* another variant of the same entry does not contain the activator.
C11_Witness ==
    /\ is_some(fn_out)
    /\ is_some(fn_out[1].applied)
    /\ is_some(template.modifiers[1][fn_out[1].applied[1]].if_activator)
    /\ \E p \in ResolvedPositives(fn_in) :
            ~contains(Stem(p), template.modifiers[1][fn_out[1].applied[1]].if_activator[1])

\* C12: the positive prompt of a planned record is the base combined with
\* one variant of the entry, with nothing or with the fragment of exactly one
\* modifier appended by one further combine.
C12_AtMostOneModifier ==
    is_some(fn_out) =>
        LET tr == fn_out[1]
            fragments == IF is_some(template.modifiers)
                         THEN {m.prompt : m \in Range(template.modifiers[1])}
                         ELSE {}
        IN  /\ tr.variant \in ResolvedPositives(fn_in)
            /\ \/ tr.record.positive = Stem(tr.variant)
               \/ \E f \in fragments :
                    tr.record.positive = combine_prompts(Stem(tr.variant), f)
            /\ ~is_some(tr.applied) => tr.record.positive = Stem(tr.variant)

\* A fragment was appended although two modifiers were applicable.
C12_Witness ==
    /\ is_some(fn_out)
    /\ is_some(fn_out[1].applied)
    /\ fn_out[1].record.positive # Stem(fn_out[1].variant)
    /\ Cardinality(applicable_modifiers(template,
            copy_with_positive(template, fn_out[1].variant))) >= 2

\* run has sampled its pool entries.
Sampled ==
    /\ cmd = "run"
    /\ pc \in {"run_client", "run_generate", "done"}
    /\ ~(pc = "done" /\ ~result.ok /\ result.error = "count is too large")

\* C13: a sequential run of count k samples exactly the first k pool entries,
\* in declared order, whatever the random draws, and plans one record for each
\* from that entry.
C13_SequentialSamplesPrefix ==
    (Sampled /\ sequential) =>
        /\ prompt_pool = [k \in 1..CountOf(template) |-> k]
        /\ Len(planned) = CountOf(template)
        /\ \A k \in 1..CountOf(template) :
                planned[k] \in generate_log_for_prompt(template, template.prompts[k])

\* A sequential run that takes fewer entries than the pool holds.
C13_Witness ==
    /\ Sampled /\ sequential
    /\ CountOf(template) < Len(template.prompts)
    /\ prompt_pool = <<1>>

\* C14: a run that is not sequential and whose count is within the pool
\* samples exactly count entries, each a position of the pool, no position
\* twice; with the count omitted the sample is a permutation of the pool.
C14_RandomSamplesDistinct ==
    (Sampled /\ ~sequential) =>
        /\ Len(prompt_pool) = CountOf(template)
        /\ \A k \in 1..Len(prompt_pool) : prompt_pool[k] \in 1..Len(template.prompts)
        /\ \A a, b \in 1..Len(prompt_pool) : a # b => prompt_pool[a] # prompt_pool[b]
        /\ ~is_some(template.count) => Range(prompt_pool) = 1..Len(template.prompts)

\* A random run of the whole pool that sampled it out of declared order.
C14_Witness ==
    /\ Sampled /\ ~sequential
    /\ ~is_some(template.count)
    /\ prompt_pool = <<2, 1>>

\* C16: the output directory holds at most one log file, at the path formed
\* when the run created the log; the log every later command loads carries that
\* path, and every write of resume, reroll and reroll_all goes to it.
C16_OneLogPath ==
    /\ DOMAIN disk \subseteq {RunPath}
    /\ DOMAIN disk0 \subseteq {RunPath}
    /\ (cmd = "run" /\ log # NoLog) => log.file_path = RunPath
    /\ (cmd \in {"resume", "reroll", "reroll_all"} /\ log # NoLog) =>
            (log.file_path = RunPath /\ arg_path = RunPath)

\* A later command rewrote the log file with new content.
C16_Witness ==
    /\ cmd \in {"resume", "reroll", "reroll_all"}
    /\ pc = "done" /\ result.ok
    /\ DOMAIN disk = {RunPath}
    /\ disk # disk0

\* C17: after generate_image returned successfully for reroll, the seed of
\* the record is set, and it is the first seed of the response whenever the
\* response has one.
C17_SeedSetAfterSuccess ==
    (cmd = "reroll" /\ pc = "reroll_write") =>
        LET resp == calls[Len(calls)].response
            seed == log.images[arg_index + 1].seed
        IN  /\ is_some(seed)
            /\ Len(resp.all_seeds) > 0 => seed = Some(resp.all_seeds[1])

\* C18: every generation request of a run carries the save_images and
\* restore_faces values of the template, false when omitted.
C18_FlagsForwarded ==
    cmd = "run" =>
        \A k \in 1..Len(calls) :
            /\ calls[k].request.save_images = unwrap_or(template.save_images, FALSE)
            /\ calls[k].request.restore_faces = unwrap_or(template.restore_faces, FALSE)

RECURSIVE ImagesReturned(_)
\* The number of images the API calls of the command returned.
ImagesReturned(cs) ==
    IF Len(cs) = 0 THEN 0
    ELSE Len(cs[Len(cs)].response.images) + ImagesReturned(SubSeq(cs, 1, Len(cs) - 1))

\* C19: a run that completed reports the number of images it created and
\* the path its log is stored at.
C19_RunReportsImagesCreated ==
    (cmd = "run" /\ pc = "done" /\ result.ok) =>
        /\ result.value = ImagesReturned(calls)
        /\ result.log_file = Some(RunPath)
        /\ RunPath \in DOMAIN disk

\* A text without its trailing whitespace: its longest prefix that is empty or
\* ends with a character that is not whitespace.
Stripped(a) ==
    LET ends == {k \in 0..Len(a) : k = 0 \/ a[k] \notin {" ", "\t", "\n"}}
        n == CHOOSE k \in ends : \A j \in ends : j <= k
    IN  SubSeq(a, 1, n)

\* C15: combine_prompts(a, b) is a without its trailing whitespace, then a
\* comma unless that text already ends with one, then one space, then b; so
\* "a, b", "a, b " and "a, b," combined with "c" all give "a, b, c".
C15_CombineJoinsWithOneComma ==
    is_some(fn_out) =>
        LET t == Stripped(fn_in.a)
            comma == IF Len(t) > 0 /\ t[Len(t)] = "," THEN <<>> ELSE <<",">>
        IN  /\ fn_out[1] = t \o comma \o <<" ">> \o fn_in.b
            /\ (fn_in.a \in CombineExamples /\ fn_in.b = <<"c">>) =>
                    fn_out[1] = <<"a", ",", " ", "b", ",", " ", "c">>

\* Whitespace after a comma was trimmed and no second comma added.
C15_Witness ==
    /\ is_some(fn_out)
    /\ fn_in.a = <<"a", ",", "\t">>
    /\ fn_out[1] = <<"a", ",", " ", "c">>

\* format!("{:03}", n) of a number below 1000
Format03(n) == <<Digit(n \div 100), Digit((n \div 10) % 10), Digit(n % 10)>>

\* C20: for a duration under one minute print_elapsed returns the whole
\* seconds, a dot, the milliseconds of the last second in three digits, and s.
C20_ElapsedThreeDigitMillis ==
    (is_some(fn_out) /\ fn_in.secs < 60) =>
        fn_out[1] = Decimal(fn_in.secs) \o <<".">>
                        \o Format03((fn_in.nanos \div 1000000) % 1000) \o <<"s">>

\* C21: when resume or reroll_all has ended, the log file holds, for every
\* index the command got an image and a seed for, the seed of that response.
C21_OnDiskSeedsOfWrittenImages ==
    (cmd \in {"resume", "reroll_all"} /\ pc = "done" /\ arg_path \in DOMAIN disk) =>
        \A k \in 1..Len(calls) :
            Complete(calls[k].response) =>
                disk[arg_path].images[calls[k].index + 1].seed
                    = Some(calls[k].response.all_seeds[1])

\* C22: in run, resume and reroll_all a failed generation call is the last
\* call of the command, which has returned an error; the calls before it were
\* for lower indices, their image files are in the output directory, and the
\* log file still holds the entries from the failed index on as they were.
C22_NoCallAfterFailure ==
    cmd \in {"run", "resume", "reroll_all"} =>
        \A k \in 1..Len(calls) :
            ~calls[k].response.ok =>
                /\ k = Len(calls)
                /\ pc = "done" /\ ~result.ok
                /\ \A j \in 1..(k - 1) :
                        /\ calls[j].index < calls[k].index
                        /\ \A n \in 1..Len(calls[j].response.images) :
                                image_filename(calls[j].index, n - 1) \in DOMAIN files
                /\ log.file_path \in DOMAIN disk
                /\ \A n \in (calls[k].index + 1)..Len(log.images) :
                        disk[log.file_path].images[n]
                            = IF cmd = "run" THEN planned[n]
                              ELSE disk0[log.file_path].images[n]

\* A run failed at its second image after it had written the first.
C22_Witness ==
    /\ cmd = "run"
    /\ Len(calls) = 2
    /\ ~calls[2].response.ok
    /\ Len(calls[1].response.images) > 0
    /\ pc = "done"

\* The log indices without an entry "<digits>.png" when the command started.
MissingIndices ==
    {n \in 0..(Len(log.images) - 1) :
        ~\E f \in DOMAIN files0 : f.ext = Png /\ from_str_radix(f.stem) = Some(n)}

\* C23: resume does not write the log before its loop has ended; when it
\* returns Ok it has made one call for each missing index, in ascending order,
\* has written the log as it then is, once, and returns the number of missing
\* indices; when nothing was missing it made no call and the log file is as
\* it was loaded.
C23_ResumeOneCallPerMissing ==
    cmd = "resume" =>
        /\ pc \in {"resume_scan", "resume_generate"} => disk = disk0
        /\ (pc = "done" /\ result.ok) =>
                /\ Len(calls) = Cardinality(MissingIndices)
                /\ {calls[k].index : k \in 1..Len(calls)} = MissingIndices
                /\ \A j, k \in 1..Len(calls) : j < k => calls[j].index < calls[k].index
                /\ result.value = Cardinality(MissingIndices)
                /\ DOMAIN disk = DOMAIN disk0
                /\ disk[arg_path] = to_json(log)
                /\ MissingIndices = {} => (calls = <<>> /\ disk = disk0)

\* A resume regenerated the second of two images and skipped the first.
C23_Witness ==
    /\ cmd = "resume" /\ pc = "done" /\ result.ok
    /\ Len(log.images) = 2
    /\ MissingIndices = {1}
    /\ Len(calls) = 1
    /\ disk # disk0

\* C25: no generation request carries a seed of the plan: every request
\* asks for a fresh seed (-1).
C25_PlanSeedNeverSent ==
    \A k \in 1..Len(calls) : calls[k].request.seed = -1

\* C28: the log, in the file and in memory, has one entry per planned
\* record, in the planned order, and each entry equals its planned record but
\* for the seed.
C28_OnlySeedsChange ==
    /\ DOMAIN disk # {} =>
            /\ Len(disk[RunPath].images) = Len(planned)
            /\ \A k \in 1..Len(planned) :
                    [disk[RunPath].images[k] EXCEPT !.seed = planned[k].seed] = planned[k]
    /\ log # NoLog =>
            /\ Len(log.images) = Len(planned)
            /\ \A k \in 1..Len(planned) :
                    [log.images[k] EXCEPT !.seed = planned[k].seed] = planned[k]

\* A later command succeeded and left a seed in the log file that is not the
\* planned one, in a record with post-processing.
C28_Witness ==
    /\ cmd \in {"resume", "reroll", "reroll_all"}
    /\ pc = "done" /\ result.ok
    /\ \E k \in 1..Len(planned) :
            /\ disk[RunPath].images[k].seed # planned[k].seed
            /\ is_some(planned[k].post_process)

\* C24: txt2img first reads the options of the service; it writes the
\* requested checkpoint, as its second request, exactly when the read succeeded
\* and gave another checkpoint; it sends the txt2img request, once and after
\* those, exactly when the read and the write (if any) succeeded, and then the
\* service has the requested checkpoint; otherwise it returns an error.
C24_ModelReconciledFirst ==
    is_some(fn_out) =>
        LET http == fn_out[1].http
            service == fn_in.service
            model == fn_in.prompt.model
            writes == {k \in 1..Len(http) :
                        http[k].method = "POST" /\ http[k].path = "options"}
            generations == {k \in 1..Len(http) : http[k].path = "txt2img"}
            reconciled == /\ service.get = "ok"
                          /\ (service.checkpoint = model \/ service.post = "ok")
        IN  /\ http[1].method = "GET" /\ http[1].path = "options"
            /\ (writes # {}) <=> (service.get = "ok" /\ service.checkpoint # model)
            /\ \A k \in writes : k = 2 /\ http[k].body = Some(model)
            /\ (generations # {}) <=> reconciled
            /\ \A k \in generations : k = Cardinality(writes) + 2
            /\ generations # {} => fn_out[1].checkpoint = model
            /\ ~reconciled => ~fn_out[1].ok

\* The checkpoint was written and the image then requested.
C24_Witness ==
    /\ is_some(fn_out)
    /\ fn_out[1].ok
    /\ fn_in.service.checkpoint # fn_in.prompt.model
    /\ Len(fn_out[1].http) = 3
    /\ fn_out[1].http[3].path = "txt2img"

\* The fragments of a negative activator.
Fragments(activator) ==
    IF activator.kind = "One" THEN {activator.one} ELSE Range(activator.many)

\* Both activator conditions of a modifier hold for a positive prompt.
Applicable(m, positive) ==
    /\ is_some(m.if_activator) => contains(positive, m.if_activator[1])
    /\ is_some(m.if_not_activator) =>
            \A f \in Fragments(m.if_not_activator[1]) : ~contains(positive, f)

\* C26: a modifier that has a negative activator is appended to a planned
\* record only if the positive prompt it was planned from, the base combined
\* with the variant, contains none of the activator's fragments; and when no
\* modifier of the template is applicable, the record's positive prompt is the
\* base combined with the variant.
C26_NegativeActivatorGuards ==
    is_some(fn_out) =>
        LET tr == fn_out[1]
            modifiers == IF is_some(template.modifiers) THEN template.modifiers[1] ELSE <<>>
        IN  /\ is_some(tr.applied) =>
                    LET m == modifiers[tr.applied[1]]
                    IN  is_some(m.if_not_activator) =>
                            \A f \in Fragments(m.if_not_activator[1]) :
                                ~contains(Stem(tr.variant), f)
            /\ (\A k \in 1..Len(modifiers) : ~Applicable(modifiers[k], Stem(tr.variant))) =>
                    (~is_some(tr.applied) /\ tr.record.positive = Stem(tr.variant))

\* A modifier with a list of negative fragments was appended, for an entry
\* that has another variant containing one of the fragments.
C26_Witness ==
    /\ is_some(fn_out)
    /\ is_some(fn_out[1].applied)
    /\ LET m == template.modifiers[1][fn_out[1].applied[1]]
       IN  /\ is_some(m.if_not_activator)
           /\ m.if_not_activator[1].kind = "Many"
           /\ \E p \in ResolvedPositives(fn_in) :
                \E f \in Fragments(m.if_not_activator[1]) : contains(Stem(p), f)

\* The log indices resume would take as present in a directory.
Recognised(images, logs) == scan_existing(DOMAIN images \cup DOMAIN logs)

\* Every ok response of the command so far held an image.
AllWithImage == \A k \in 1..Len(calls) : calls[k].response.ok => Len(calls[k].response.images) > 0

\* Indices at the ends of the one-, two-, three- and four-digit ranges.
NameIndices == 0..11 \cup {99, 100, 101, 120, 999, 1000, 1001, 12345}

\* C27: the primary file run or resume wrote for an index is recognised by
\* resume as that index (the name of index n parses back to n, also for
\* n >= 100); after a run or resume that succeeded with an image in every
\* response every log index is recognised; and a resume that finds every log
\* index recognised makes no API call and leaves the log, in memory and in the
\* file, as it was.
C27_ResumeIdempotent ==
    /\ pc = "resume_scan" =>
            \A n \in NameIndices :
                /\ image_filename(n, 0).ext = Png
                /\ from_str_radix(image_filename(n, 0).stem) = Some(n)
    /\ cmd \in {"run", "resume"} =>
            \A k \in 1..Len(calls) :
                (calls[k].response.ok /\ Len(calls[k].response.images) > 0) =>
                    /\ image_filename(calls[k].index, 0) \in DOMAIN files
                    /\ calls[k].index \in Recognised(files, disk)
    /\ (cmd \in {"run", "resume"} /\ pc = "done" /\ result.ok /\ ~dry_run /\ AllWithImage) =>
            \A n \in 0..(Len(log.images) - 1) : n \in Recognised(files, disk)
    /\ (cmd = "resume" /\ log # NoLog
            /\ \A n \in 0..(Len(log.images) - 1) : n \in Recognised(files0, disk0)) =>
            /\ calls = <<>>
            /\ log.images = disk0[arg_path].images
            /\ disk = disk0
            /\ files = files0

\* A resume of a log of two images found both and returned Ok(0).
C27_Witness ==
    /\ cmd = "resume" /\ pc = "done" /\ result.ok
    /\ Len(log.images) = 2
    /\ {image_filename(0, 0), image_filename(1, 0)} \subseteq DOMAIN files0
    /\ calls = <<>>
    /\ result.value = 0
    /\ disk = disk0

====
